---- MODULE Spec2Model ----
(***************************************************************************)
(* Authentication core of the collaborative hobby tracker backend:         *)
(*   - the User Directory (MongoDB collection "users") and the requests    *)
(*     that read and write it: Register, Login, Google and GitHub OAuth    *)
(*     callbacks, each request running as its own goroutine;               *)
(*   - the Token Service (GenerateToken / ValidateToken) and the Auth      *)
(*     Middleware built on it;                                             *)
(*   - the circle repository (MongoDB collection "circles") and the access *)
(*     resolution of models.Circle.                                        *)
(* Strings that the code inspects character by character (emails) are      *)
(* sequences of one-character strings; the empty string is <<>> there.     *)
(* An optional HTTP parameter or cookie is <<>> when absent and <<v>> when *)
(* present with value v.                                                   *)
(***************************************************************************)
EXTENDS Integers, Sequences, FiniteSets, TLC

VARIABLES
    emailUnique,   \* TRUE iff the users collection carries the email_unique index
    users,         \* the documents of the users collection
    nextId,        \* next fresh ObjectID
    req,           \* the requests being handled, one goroutine each
    nreq,          \* number of requests accepted so far
    now,           \* wall clock, in ticks
    tok,           \* token spec: the token string a client holds
    gen,           \* token spec: how tok was produced
    vres,          \* token spec: result of the last ValidateToken call
    mw,            \* token spec: outcome of the last request through AuthMiddleware
    ghEmails,      \* the list the GitHub emails endpoint answers with
    circles,       \* the documents of the circles collection
    nextCircle,    \* next fresh ObjectID for a circle
    cop,           \* the circle repository calls in progress, one goroutine each
    ncop           \* number of circle repository calls made so far

vars == <<emailUnique, users, nextId, req, nreq, now, tok, gen, vres, mw,
          ghEmails, circles, nextCircle, cop, ncop>>

srvVars == <<emailUnique, users, nextId, req, nreq>>
tokVars == <<tok, gen, vres, mw>>
circVars == <<circles, nextCircle, cop, ncop>>

(***************************************************************************)
(* Bounds                                                                  *)
(***************************************************************************)
MaxReq == 2          \* requests handled in one behaviour
MaxEmails == 2       \* length of the list the GitHub emails endpoint returns
TicksPerSec == 2     \* clock ticks per second
ClockSpan == 4       \* ticks the clock advances in one behaviour
MaxHdr == 3          \* words and spaces in an Authorization header
MaxCircles == 2      \* circles created in one behaviour
MaxOps == 3          \* circle repository calls in one behaviour

StartNow == 2 * TicksPerSec
MaxNow == StartNow + ClockSpan

\* two requests at a time are in flight; a finished one makes room for the next
Workers == {1, 2}

(***************************************************************************)
(* Input alphabets                                                         *)
(***************************************************************************)
EmailA == <<"a", "@", "x", ".", "i", "o">>
EmailB == <<"b", "@", "x", ".", "i", "o">>
EmailBad == <<"a", "@", "x">>
NoEmail == <<>>

ProviderEmails == {NoEmail, EmailA, EmailB}
GoogleIDs == {"g1", "g2"}
GitHubIDs == {7}

JWTSecret == "secret"
TokenDuration == 60 * TicksPerSec

(***************************************************************************)
(* models.User and the values around it                                    *)
(***************************************************************************)
NoHash == <<>>

User(id, email, hash, name, provider, providerName) ==
    [id |-> id, email |-> email, passwordHash |-> hash, name |-> name,
     oauthProvider |-> provider, oauthProviderName |-> providerName]

\* bcrypt: a salted hash of the password; only the password it was made from verifies
HashPassword(password) == <<"$2a$10$", password>>

VerifyPassword(hash, password) ==
    IF Len(hash) # 2 THEN FALSE ELSE hash[1] = "$2a$10$" /\ hash[2] = password

HexDigits == <<"0", "1", "2", "3", "4", "5", "6", "7", "8", "9",
               "a", "b", "c", "d", "e", "f">>

\* primitive.ObjectID.Hex, two digits wide here
Hex(id) == <<HexDigits[((id \div 16) % 16) + 1], HexDigits[(id % 16) + 1]>>

Digits == <<"0", "1", "2", "3", "4", "5", "6", "7", "8", "9">>

\* strconv.Itoa for one-digit numbers
Itoa(n) == Digits[n + 1]

(***************************************************************************)
(* Token Service (pkg/auth/jwt.go)                                         *)
(* A token string is empty, some text that is no JWT, or a JWT: header     *)
(* algorithm, claims and signature.  A signature is modelled by the triple *)
(* it is computed from, so two signatures are equal exactly when algorithm,*)
(* key and signed claims are.                                              *)
(***************************************************************************)
EmptyToken == [kind |-> "empty", alg |-> "", claims |-> <<>>, sig |-> <<>>]
TextToken == [kind |-> "text", alg |-> "", claims |-> <<>>, sig |-> <<>>]

MapClaims(userID, email, exp) == [user_id |-> userID, email |-> email, exp |-> exp]

Sign(alg, key, claims) == <<alg, key, claims>>

Jwt(alg, claims, sig) == [kind |-> "jwt", alg |-> alg, claims |-> claims, sig |-> sig]

HMACAlgs == {"HS256", "HS384", "HS512"}
Algs == HMACAlgs \cup {"RS256", "none"}

\* the expiry rounded up to the next whole second
ExpiresAtRoundUp(t, duration) == (t + duration + TicksPerSec - 1) \div TicksPerSec

\* time.Now().Add(duration).Unix(): whole seconds, rounded down
ExpiresAt(t, duration) == (t + duration) \div TicksPerSec

GenerateToken(userID, email, secret, duration, t) ==
    LET claims == MapClaims(<<Hex(userID)>>, <<email>>, <<ExpiresAt(t, duration)>>)
    IN  Jwt("HS256", claims, Sign("HS256", secret, claims))

Rejected(err) == [ok |-> FALSE, err |-> err, claims |-> <<>>]
Accepted(claims) == [ok |-> TRUE, err |-> "", claims |-> <<claims>>]

\* a key function that hands out the key whatever the signing method
KeyFuncAcceptsAny(alg) == alg \in Algs

\* the key function handed to jwt.Parse
KeyFuncAccepts(alg) == alg \in HMACAlgs

\* ValidateToken without its check for the empty string
ValidateTokenNoEmptyCheck(t, secret, t_now) ==
    IF t.kind # "jwt" THEN Rejected("token is malformed")
    ELSE IF ~KeyFuncAccepts(t.alg)
        THEN Rejected("token is unverifiable: invalid signing method")
    ELSE IF t.sig # Sign(t.alg, secret, t.claims)
        THEN Rejected("token signature is invalid")
    ELSE IF t.claims.exp # <<>> /\ ~(t_now < t.claims.exp[1] * TicksPerSec)
        THEN Rejected("token is expired")
    ELSE IF t.claims.user_id = <<>> THEN Rejected("invalid user_id in claims")
    ELSE IF t.claims.email = <<>> THEN Rejected("invalid email in claims")
    ELSE IF t.claims.exp = <<>> THEN Rejected("invalid exp in claims")
    ELSE Accepted([UserID |-> t.claims.user_id[1], Email |-> t.claims.email[1],
                   ExpiresAt |-> t.claims.exp[1]])

\* jwt.Parse with the key function, then the extraction of the three claims
ValidateToken(t, secret, t_now) ==
    IF t.kind = "empty" THEN Rejected("token is empty")
    ELSE IF t.kind # "jwt" THEN Rejected("token is malformed")
    ELSE IF ~KeyFuncAccepts(t.alg)
        THEN Rejected("token is unverifiable: invalid signing method")
    ELSE IF t.sig # Sign(t.alg, secret, t.claims)
        THEN Rejected("token signature is invalid")
    ELSE IF t.claims.exp # <<>> /\ ~(t_now < t.claims.exp[1] * TicksPerSec)
        THEN Rejected("token is expired")
    ELSE IF t.claims.user_id = <<>> THEN Rejected("invalid user_id in claims")
    ELSE IF t.claims.email = <<>> THEN Rejected("invalid email in claims")
    ELSE IF t.claims.exp = <<>> THEN Rejected("invalid exp in claims")
    ELSE Accepted([UserID |-> t.claims.user_id[1], Email |-> t.claims.email[1],
                   ExpiresAt |-> t.claims.exp[1]])

NoGen == [by |-> "none", userID |-> 0, email |-> NoEmail, secret |-> "",
          duration |-> 0, at |-> 0]
NoCall == [called |-> FALSE, secret |-> "", at |-> 0, out |-> Rejected("")]

(***************************************************************************)
(* Auth Middleware (internal/middleware/auth.go)                           *)
(* An Authorization header is a sequence of words and single spaces; a     *)
(* word is the text "Bearer", the text "bearer" or a token string, and two *)
(* adjacent words form one longer string.                                  *)
(***************************************************************************)
SP == [kind |-> "sp", text |-> " ", tok |-> EmptyToken]
Bearer == [kind |-> "text", text |-> "Bearer", tok |-> EmptyToken]
bearer == [kind |-> "text", text |-> "bearer", tok |-> EmptyToken]
TokenWord(t) == [kind |-> "tok", text |-> "", tok |-> t]

RECURSIVE Split(_)
\* strings.Split(header, " "): the parts between the spaces, empty ones included
Split(h) ==
    IF \A i \in 1..Len(h) : h[i] # SP THEN <<h>>
    ELSE LET i == CHOOSE k \in 1..Len(h) : h[k] = SP /\ \A m \in 1..(k - 1) : h[m] # SP
         IN  <<SubSeq(h, 1, i - 1)>> \o Split(SubSeq(h, i + 1, Len(h)))

\* the token string a part of the header is
PartToken(part) ==
    IF part = <<>> THEN EmptyToken
    ELSE IF Len(part) = 1 /\ part[1].kind = "tok" THEN part[1].tok
    ELSE TextToken

NoRequest == [served |-> FALSE, header |-> <<>>, status |-> 0, body |-> "",
              next |-> FALSE, userID |-> <<>>, email |-> <<>>]

Abort(header, status, body) ==
    [served |-> TRUE, header |-> header, status |-> status, body |-> body,
     next |-> FALSE, userID |-> <<>>, email |-> <<>>]

\* the middleware answering 403 to a token that fails validation
AuthMiddlewareForbidden(header, jwtSecret, t_now) ==
    IF header = <<>> THEN Abort(header, 401, "authorization header required")
    ELSE LET parts == Split(header)
         IN  IF Len(parts) # 2 \/ parts[1] # <<Bearer>>
             THEN Abort(header, 401, "invalid authorization header format")
             ELSE LET out == ValidateToken(PartToken(parts[2]), jwtSecret, t_now)
                  IN  IF ~out.ok THEN Abort(header, 403, "invalid token")
                      ELSE [served |-> TRUE, header |-> header, status |-> 0,
                            body |-> "", next |-> TRUE,
                            userID |-> <<out.claims[1].UserID>>,
                            email |-> <<out.claims[1].Email>>]

\* the middleware without the comparison of the first part with "Bearer"
AuthMiddlewareAnyScheme(header, jwtSecret, t_now) ==
    IF header = <<>> THEN Abort(header, 401, "authorization header required")
    ELSE LET parts == Split(header)
         IN  IF Len(parts) # 2
             THEN Abort(header, 401, "invalid authorization header format")
             ELSE LET out == ValidateToken(PartToken(parts[2]), jwtSecret, t_now)
                  IN  IF ~out.ok THEN Abort(header, 401, "invalid token")
                      ELSE [served |-> TRUE, header |-> header, status |-> 0,
                            body |-> "", next |-> TRUE,
                            userID |-> <<out.claims[1].UserID>>,
                            email |-> <<out.claims[1].Email>>]

\* the handler function AuthMiddleware(jwtSecret) returns, run on a request
\* with the given Authorization header at time t_now
AuthMiddleware(header, jwtSecret, t_now) ==
    IF header = <<>> THEN Abort(header, 401, "authorization header required")
    ELSE LET parts == Split(header)
         IN  IF Len(parts) # 2 \/ parts[1] # <<Bearer>>
             THEN Abort(header, 401, "invalid authorization header format")
             ELSE LET out == ValidateToken(PartToken(parts[2]), jwtSecret, t_now)
                  IN  IF ~out.ok THEN Abort(header, 401, "invalid token")
                      ELSE [served |-> TRUE, header |-> header, status |-> 0,
                            body |-> "", next |-> TRUE,
                            userID |-> <<out.claims[1].UserID>>,
                            email |-> <<out.claims[1].Email>>]

(***************************************************************************)
(* Credential Auth Service (internal/service/auth/service.go)              *)
(***************************************************************************)
minPasswordLength == 8

LowerLetters == {"a", "b", "c", "d", "e", "f", "g", "h", "i", "j", "k", "l", "m",
                 "n", "o", "p", "q", "r", "s", "t", "u", "v", "w", "x", "y", "z"}
UpperLetters == {"A", "B", "C", "D", "E", "F", "G", "H", "I", "J", "K", "L", "M",
                 "N", "O", "P", "Q", "R", "S", "T", "U", "V", "W", "X", "Y", "Z"}
Letters == LowerLetters \cup UpperLetters
DigitChars == {"0", "1", "2", "3", "4", "5", "6", "7", "8", "9"}
LocalChars == Letters \cup DigitChars \cup {".", "_", "%", "+", "-"}
DomainChars == Letters \cup DigitChars \cup {".", "-"}

\* ^[a-zA-Z0-9._%+\-]+@[a-zA-Z0-9.\-]+\.[a-zA-Z]{2,}$
emailRegex(s) ==
    \E i \in 1..Len(s), j \in 1..Len(s) :
        /\ 1 < i /\ i + 1 < j /\ j + 2 <= Len(s)
        /\ s[i] = "@" /\ s[j] = "."
        /\ \A k \in 1..(i - 1) : s[k] \in LocalChars
        /\ \A k \in (i + 1)..(j - 1) : s[k] \in DomainChars
        /\ \A k \in (j + 1)..Len(s) : s[k] \in Letters

\* the error sentinels, by name, and their messages
ErrMsg(err) ==
    CASE err = "ErrEmailAlreadyExists" -> "email already exists"
      [] err = "ErrInvalidCredentials" -> "invalid credentials"
      [] err = "ErrInvalidEmail" -> "invalid email format"
      [] err = "ErrPasswordTooShort" -> "password must be at least 8 characters"
      [] err = "ErrEmailRequired" -> "email is required"
      [] err = "ErrPasswordRequired" -> "password is required"
      [] err = "ErrNameRequired" -> "name is required"
      [] err = "ErrOAuthCodeRequired" -> "authorization code is required"
      [] err = "ErrOAuthTokenExchange" -> "failed to exchange authorization code for token"
      [] err = "ErrOAuthUserInfo" -> "failed to fetch user information"
      [] OTHER -> err

\* the input checks with a password of the minimum length refused
RegisterValidateLe(email, password, name) ==
    IF email = NoEmail THEN "ErrEmailRequired"
    ELSE IF password = "" THEN "ErrPasswordRequired"
    ELSE IF name = "" THEN "ErrNameRequired"
    ELSE IF ~emailRegex(email) THEN "ErrInvalidEmail"
    ELSE IF Len(password) <= minPasswordLength THEN "ErrPasswordTooShort"
    ELSE ""

\* the input checks of Service.Register, "" when the input passes
RegisterValidate(email, password, name) ==
    IF email = NoEmail THEN "ErrEmailRequired"
    ELSE IF password = "" THEN "ErrPasswordRequired"
    ELSE IF name = "" THEN "ErrNameRequired"
    ELSE IF ~emailRegex(email) THEN "ErrInvalidEmail"
    ELSE IF Len(password) < minPasswordLength THEN "ErrPasswordTooShort"
    ELSE ""

\* the input checks of Service.Login
LoginValidate(email, password) ==
    IF email = NoEmail THEN "ErrEmailRequired"
    ELSE IF password = "" THEN "ErrPasswordRequired"
    ELSE ""

AuthResult(token, user) ==
    [Token |-> token, UserID |-> Hex(user.id), Email |-> user.email, Name |-> user.name]

(***************************************************************************)
(* User Directory (internal/repository/user_repository.go)                 *)
(***************************************************************************)
\* what FindByEmail can return: <<>> for ErrUserNotFound, else <<user>> for a
\* stored document with that email (FindOne picks one if there are several)
FindByEmail(email) ==
    IF \A u \in users : u.email # email THEN {<<>>}
    ELSE {<<u>> : u \in {v \in users : v.email = email}}

\* InsertOne fails with a duplicate key error iff the unique index exists
\* and a document with that email is stored
DuplicateKey(email) == emailUnique /\ \E u \in users : u.email = email

\* UpdateOne({"_id": user.id}, {"$set": user}): the stored document gets the
\* fields of user, except the omitempty ones that are empty in user
UpdateDoc(user) ==
    {IF u.id = user.id
     THEN [user EXCEPT
              !.oauthProvider = IF @ = "" THEN u.oauthProvider ELSE @,
              !.oauthProviderName = IF @ = "" THEN u.oauthProviderName ELSE @]
     ELSE u : u \in users}

(***************************************************************************)
(* Requests                                                                *)
(* A request record holds the inputs and the live local variables of the   *)
(* goroutine serving it; a local is reset to its zero value after its last *)
(* use (state, cookie and code when the token endpoint is contacted, the   *)
(* access token after the last provider call).  calls lists the provider   *)
(* endpoints contacted, dbOps counts the User Directory operations.  ctx   *)
(* is the context of the inbound request, deadline the time at which the   *)
(* HTTP client gives up on the provider call in flight (<<>> when no call  *)
(* is in flight or the client has no timeout).                             *)
(***************************************************************************)
NoResp == [status |-> 0, body |-> "", result |-> <<>>]

ErrorResp(status, body) == [status |-> status, body |-> body, result |-> <<>>]
ResultResp(status, result) == [status |-> status, body |-> "", result |-> <<result>>]

Idle == [kind |-> "none", pc |-> "idle", email |-> NoEmail, password |-> "",
         name |-> "", state |-> <<>>, cookie |-> <<>>, code |-> <<>>,
         accessToken |-> "", providerID |-> "", found |-> <<>>,
         calls |-> <<>>, dbOps |-> 0, ctx |-> "live", deadline |-> <<>>,
         err |-> "", resp |-> NoResp]

\* c.Query(key): the value, or "" when the parameter is absent
Query(param) == IF param = <<>> THEN "" ELSE param[1]

Finish(r, err, resp) ==
    [r EXCEPT !.pc = "done", !.err = err, !.resp = resp, !.deadline = <<>>]

\* AuthHandler.Register: the response for an error of Service.Register
RegisterErrorResp(err) ==
    IF err = "ErrEmailAlreadyExists" THEN ErrorResp(409, ErrMsg(err))
    ELSE IF err \in {"ErrInvalidEmail", "ErrPasswordTooShort", "ErrEmailRequired",
                     "ErrPasswordRequired", "ErrNameRequired"}
        THEN ErrorResp(400, ErrMsg(err))
    ELSE ErrorResp(500, "failed to register user")

\* AuthHandler.Login: the response for an error of Service.Login
LoginErrorResp(err) ==
    IF err = "ErrInvalidCredentials" THEN ErrorResp(401, ErrMsg(err))
    ELSE IF err \in {"ErrEmailRequired", "ErrPasswordRequired"}
        THEN ErrorResp(400, ErrMsg(err))
    ELSE ErrorResp(500, "failed to login")

\* AuthHandler.GoogleCallback / GitHubCallback: the response for a service error
CallbackErrorResp(kind) ==
    ErrorResp(500, IF kind = "google" THEN "failed to authenticate with Google"
                   ELSE "failed to authenticate with GitHub")

RegisterInputs ==
    {<<NoEmail, "password", "Al">>, <<EmailA, "", "Al">>, <<EmailA, "password", "">>,
     <<EmailBad, "password", "Al">>, <<EmailA, "passwor", "Al">>,
     <<EmailA, "password", "Al">>, <<EmailA, "Password", "Al">>,
     <<EmailB, "password", "Al">>}

LoginInputs ==
    {<<NoEmail, "password">>, <<EmailA, "">>, <<EmailA, "password">>,
     <<EmailA, "Password">>, <<EmailB, "password">>}

CanAccept(w) == req[w].pc = "idle" /\ nreq < MaxReq

\* POST /auth/register up to the FindByEmail of Service.Register
RegisterBegin(w, email, password, name) ==
    /\ CanAccept(w)
    /\ LET r == [Idle EXCEPT !.kind = "register", !.email = email,
                             !.password = password, !.name = name]
           verr == RegisterValidate(email, password, name)
       IN  IF email = NoEmail \/ password = "" \/ name = ""
               THEN req' = [req EXCEPT ![w] =
                        Finish(r, "binding", ErrorResp(400, "binding: required"))]
           ELSE IF verr # ""
               THEN req' = [req EXCEPT ![w] = Finish(r, verr, RegisterErrorResp(verr))]
           ELSE \E found \in FindByEmail(email) :
                    req' = [req EXCEPT ![w] =
                        IF found # <<>>
                        THEN Finish([r EXCEPT !.dbOps = 1], "ErrEmailAlreadyExists",
                                    RegisterErrorResp("ErrEmailAlreadyExists"))
                        ELSE [r EXCEPT !.pc = "create", !.dbOps = 1]]
    /\ nreq' = nreq + 1
    /\ UNCHANGED <<emailUnique, users, nextId, now, tokVars,
                 ghEmails, circVars>>

\* Service.Register from HashPassword on: Create, GenerateToken, the response
RegisterCreate(w) ==
    /\ req[w].kind = "register" /\ req[w].pc = "create"
    /\ LET r == [req[w] EXCEPT !.dbOps = @ + 1]
           user == User(nextId, r.email, HashPassword(r.password), r.name, "", "")
       IN  IF DuplicateKey(r.email)
           THEN /\ req' = [req EXCEPT ![w] = Finish(r, "failed to create user",
                                  RegisterErrorResp("failed to create user"))]
                /\ UNCHANGED <<users, nextId>>
           ELSE /\ users' = users \cup {user}
                /\ nextId' = nextId + 1
                /\ req' = [req EXCEPT ![w] = Finish(r, "",
                       ResultResp(201, AuthResult(
                           GenerateToken(user.id, r.email, JWTSecret, TokenDuration, now),
                           user)))]
    /\ UNCHANGED <<emailUnique, nreq, now, tokVars,
                 ghEmails, circVars>>

\* Service.Login telling an unknown email from a wrong password
LoginCheckLeaky(found, password) ==
    IF found = <<>> THEN "ErrUserNotFound"
    ELSE IF ~VerifyPassword(found[1].passwordHash, password)
        THEN "ErrInvalidCredentials"
    ELSE ""

\* Service.Login after the lookup: the error for what FindByEmail returned
LoginCheck(found, password) ==
    IF found = <<>> THEN "ErrInvalidCredentials"
    ELSE IF ~VerifyPassword(found[1].passwordHash, password)
        THEN "ErrInvalidCredentials"
    ELSE ""

\* POST /auth/login: AuthHandler.Login and Service.Login
Login(w, email, password) ==
    /\ CanAccept(w)
    /\ LET r == [Idle EXCEPT !.kind = "login", !.email = email, !.password = password]
           verr == LoginValidate(email, password)
       IN  IF email = NoEmail \/ password = ""
               THEN req' = [req EXCEPT ![w] =
                        Finish(r, "binding", ErrorResp(400, "binding: required"))]
           ELSE IF verr # ""
               THEN req' = [req EXCEPT ![w] = Finish(r, verr, LoginErrorResp(verr))]
           ELSE \E found \in FindByEmail(email) :
                    LET f == [r EXCEPT !.dbOps = 1, !.found = found]
                        err == LoginCheck(found, password)
                    IN  req' = [req EXCEPT ![w] =
                            IF err # "" THEN Finish(f, err, LoginErrorResp(err))
                            ELSE Finish(f, "", ResultResp(200, AuthResult(
                                     GenerateToken(found[1].id, email, JWTSecret,
                                                   TokenDuration, now), found[1])))]
    /\ nreq' = nreq + 1
    /\ UNCHANGED <<emailUnique, users, nextId, now, tokVars,
                 ghEmails, circVars>>

(***************************************************************************)
(* OAuth Federation Service (oauth_google.go, oauth_github.go)             *)
(* A provider's HTTP answer: a transport error (timeout included), or a    *)
(* status and a body; body is <<>> when it does not decode as JSON and     *)
(* <<v>> when it decodes to v.                                             *)
(***************************************************************************)
ClientTimeoutSec == 10

\* &http.Client{}: a client without a timeout never gives a call up
DeadlineNone(t) == <<>>

\* &http.Client{Timeout: 10 * time.Second}: when a call started at t is given up
Deadline(t) == <<t + ClientTimeoutSec * TicksPerSec>>

\* what client.Do returns when the timeout elapses
TimedOut == [transportErr |-> TRUE, status |-> 0, body |-> <<>>]

\* the answer resp reaches the client of request r: an error of the transport
\* at any moment, a response only before the client gives up
Arrives(r, resp) ==
    IF resp.transportErr \/ r.deadline = <<>> THEN TRUE ELSE now < r.deadline[1]

HTTPResponses(values) ==
    {[transportErr |-> TRUE, status |-> 0, body |-> <<>>],
     [transportErr |-> FALSE, status |-> 500, body |-> <<>>],
     [transportErr |-> FALSE, status |-> 200, body |-> <<>>]}
    \cup {[transportErr |-> FALSE, status |-> 200, body |-> <<v>>] : v \in values}

\* client.Do fails, the status is not 200, or the body does not decode
HTTPFailed(resp) == resp.transportErr \/ resp.status # 200 \/ resp.body = <<>>

TokenResponses == HTTPResponses({"", "at"})

GoogleUserInfos == [ID : GoogleIDs, Email : ProviderEmails, Name : {"G"}]
GitHubUserInfos == [ID : GitHubIDs, Name : {"H"}]

\* what the user-info endpoint of the request's provider can answer
UserInfoResponses(kind) ==
    HTTPResponses(IF kind = "google" THEN GoogleUserInfos ELSE GitHubUserInfos)

GitHubEmail == [Email : {EmailA, EmailB}, Primary : BOOLEAN, Verified : BOOLEAN]
GitHubEmailLists == UNION {[1..n -> GitHubEmail] : n \in 0..MaxEmails}

RECURSIVE FirstWhere(_, _, _)
\* the first index from i on whose entry is in the set keep, 0 if there is none
FirstWhere(emails, keep, i) ==
    IF i > Len(emails) THEN 0
    ELSE IF emails[i] \in keep THEN i
    ELSE FirstWhere(emails, keep, i + 1)

\* the selection without the loop over the verified entries
getGitHubUserEmailNoVerified(emails) ==
    LET pv == FirstWhere(emails, {e \in GitHubEmail : e.Primary /\ e.Verified}, 1)
    IN  IF pv # 0 THEN <<emails[pv].Email>>
        ELSE IF Len(emails) > 0 THEN <<emails[1].Email>>
        ELSE <<>>

\* the selection at the end of getGitHubUserEmail: <<email>>, or <<>> for
\* "no email found for user"
getGitHubUserEmail(emails) ==
    LET pv == FirstWhere(emails, {e \in GitHubEmail : e.Primary /\ e.Verified}, 1)
        v == FirstWhere(emails, {e \in GitHubEmail : e.Verified}, 1)
    IN  IF pv # 0 THEN <<emails[pv].Email>>
        ELSE IF v # 0 THEN <<emails[v].Email>>
        ELSE IF Len(emails) > 0 THEN <<emails[1].Email>>
        ELSE <<>>

\* "random-state-" + string(rune(123456789)): the number is no Unicode code
\* point, so the conversion yields the replacement character U+FFFD
generateRandomState == "random-state-U+FFFD"

\* GetGoogleAuthURL / GetGitHubAuthURL: the authorization URL, without its query
AuthURL(kind) ==
    IF kind = "googleAuth" THEN "https://accounts.google.com/o/oauth2/v2/auth"
    ELSE "https://github.com/login/oauth/authorize"

\* AuthHandler.GoogleAuth / GitHubAuth: the state goes into the oauth_state
\* cookie and into the state parameter of the URL the browser is sent to
AuthRedirect(w, kind) ==
    /\ CanAccept(w)
    /\ LET state == generateRandomState
       IN  req' = [req EXCEPT ![w] =
               Finish([Idle EXCEPT !.kind = kind, !.state = <<state>>,
                                   !.cookie = <<state>>],
                      "", ErrorResp(307, AuthURL(kind)))]
    /\ nreq' = nreq + 1
    /\ UNCHANGED <<emailUnique, users, nextId, now, tokVars,
                 ghEmails, circVars>>

CallbackInputs ==
    {<<<<>>, <<>>, <<"c1">>>>, <<<<>>, <<"">>, <<"c1">>>>,
     <<<<"s1">>, <<"s2">>, <<"c1">>>>, <<<<"s1">>, <<>>, <<"c1">>>>,
     <<<<"s1">>, <<"s1">>, <<>>>>, <<<<"s1">>, <<"s1">>, <<"c1">>>>}

\* AuthHandler.GoogleCallback / GitHubCallback up to the call of the service,
\* and the code check of HandleGoogleCallback / HandleGitHubCallback
CallbackBegin(w, kind, state, cookie, code) ==
    /\ CanAccept(w)
    /\ LET r == [Idle EXCEPT !.kind = kind, !.state = state, !.cookie = cookie,
                             !.code = code]
       IN  req' = [req EXCEPT ![w] =
               IF cookie = <<>> \/ Query(state) # cookie[1]
                   THEN Finish(r, "state", ErrorResp(400, "invalid state parameter"))
               ELSE IF Query(code) = ""
                   THEN Finish(r, "code",
                               ErrorResp(400, "authorization code is required"))
               ELSE [r EXCEPT !.pc = "exchange", !.deadline = Deadline(now)]]
    /\ nreq' = nreq + 1
    /\ UNCHANGED <<emailUnique, users, nextId, now, tokVars,
                 ghEmails, circVars>>

\* the token exchange tried a second time after a failure
CallbackExchangeRetry(w, resp) ==
    /\ req[w].kind \in {"google", "github"} /\ req[w].pc = "exchange"
    /\ Arrives(req[w], resp)
    /\ LET r == [req[w] EXCEPT !.calls = Append(@, "token"), !.state = <<>>,
                                !.cookie = <<>>, !.code = <<>>]
       IN  req' = [req EXCEPT ![w] =
               IF HTTPFailed(resp)
                   THEN IF Len(r.calls) < 2 THEN r
                        ELSE Finish(r, "ErrOAuthTokenExchange", CallbackErrorResp(r.kind))
               ELSE [r EXCEPT !.pc = "userinfo", !.accessToken = resp.body[1],
                              !.deadline = Deadline(now)]]
    /\ UNCHANGED <<emailUnique, users, nextId, nreq, now, tokVars,
                 ghEmails, circVars>>

\* exchangeCodeForToken / exchangeGitHubCodeForToken and the caller's error check
CallbackExchange(w, resp) ==
    /\ req[w].kind \in {"google", "github"} /\ req[w].pc = "exchange"
    /\ Arrives(req[w], resp)
    /\ LET r == [req[w] EXCEPT !.calls = Append(@, "token"), !.state = <<>>,
                                !.cookie = <<>>, !.code = <<>>]
       IN  req' = [req EXCEPT ![w] =
               IF HTTPFailed(resp)
                   THEN Finish(r, "ErrOAuthTokenExchange", CallbackErrorResp(r.kind))
               ELSE [r EXCEPT !.pc = "userinfo", !.accessToken = resp.body[1],
                              !.deadline = Deadline(now)]]
    /\ UNCHANGED <<emailUnique, users, nextId, nreq, now, tokVars,
                 ghEmails, circVars>>

\* the user-info step of a GitHub callback that stores the user as soon as
\* the provider has named it, before the emails endpoint is asked
CallbackUserInfoEager(w, resp) ==
    /\ req[w].kind \in {"google", "github"} /\ req[w].pc = "userinfo"
    /\ Arrives(req[w], resp)
    /\ LET r == [req[w] EXCEPT !.calls = Append(@, "userinfo")]
       IN  IF HTTPFailed(resp)
           THEN /\ req' = [req EXCEPT ![w] =
                       Finish(r, "ErrOAuthUserInfo", CallbackErrorResp(r.kind))]
                /\ UNCHANGED <<users, nextId>>
           ELSE IF r.kind = "google"
           THEN /\ req' = [req EXCEPT ![w] =
                       [r EXCEPT !.pc = "find", !.accessToken = "",
                                 !.deadline = <<>>,
                                 !.providerID = resp.body[1].ID,
                                 !.email = resp.body[1].Email,
                                 !.name = resp.body[1].Name]]
                /\ UNCHANGED <<users, nextId>>
           ELSE /\ req' = [req EXCEPT ![w] =
                       [r EXCEPT !.pc = "emails", !.deadline = Deadline(now),
                                 !.providerID = Itoa(resp.body[1].ID),
                                 !.name = resp.body[1].Name]]
                /\ users' = users \cup {User(nextId, NoEmail, NoHash, resp.body[1].Name,
                                              Itoa(resp.body[1].ID), "github")}
                /\ nextId' = nextId + 1
    /\ UNCHANGED <<emailUnique, nreq, now, tokVars,
                 ghEmails, circVars>>

\* getUserInfo / getGitHubUserInfo and the caller's error check
CallbackUserInfo(w, resp) ==
    /\ req[w].kind \in {"google", "github"} /\ req[w].pc = "userinfo"
    /\ Arrives(req[w], resp)
    /\ LET r == [req[w] EXCEPT !.calls = Append(@, "userinfo")]
       IN  req' = [req EXCEPT ![w] =
               IF HTTPFailed(resp)
                   THEN Finish(r, "ErrOAuthUserInfo", CallbackErrorResp(r.kind))
               ELSE IF r.kind = "google"
                   THEN [r EXCEPT !.pc = "find", !.accessToken = "",
                                  !.deadline = <<>>,
                                  !.providerID = resp.body[1].ID,
                                  !.email = resp.body[1].Email,
                                  !.name = resp.body[1].Name]
               ELSE [r EXCEPT !.pc = "emails", !.deadline = Deadline(now),
                              !.providerID = Itoa(resp.body[1].ID),
                              !.name = resp.body[1].Name]]
    /\ UNCHANGED <<emailUnique, users, nextId, nreq, now, tokVars,
                 ghEmails, circVars>>

\* the getGitHubUserEmail call of HandleGitHubCallback and its error check
CallbackEmails(w, resp) ==
    /\ req[w].kind = "github" /\ req[w].pc = "emails"
    /\ Arrives(req[w], resp)
    /\ LET r == [req[w] EXCEPT !.calls = Append(@, "emails")]
       IN  req' = [req EXCEPT ![w] =
               IF HTTPFailed(resp)
                   THEN Finish(r, "failed to get user email: emails request failed",
                               CallbackErrorResp(r.kind))
               ELSE IF getGitHubUserEmail(resp.body[1]) = <<>>
                   THEN Finish(r, "failed to get user email: no email found for user",
                               CallbackErrorResp(r.kind))
               ELSE [r EXCEPT !.pc = "find", !.accessToken = "", !.deadline = <<>>,
                              !.email = getGitHubUserEmail(resp.body[1])[1]]]
    /\ UNCHANGED <<emailUnique, users, nextId, nreq, now, tokVars,
                 ghEmails, circVars>>

\* the FindByEmail of the find-or-create step; an operation of the driver
\* under a cancelled context returns the context's error
CallbackFind(w) ==
    /\ req[w].kind \in {"google", "github"} /\ req[w].pc = "find"
    /\ IF req[w].ctx = "cancelled"
       THEN req' = [req EXCEPT ![w] = Finish(@, "failed to find user",
                                             CallbackErrorResp(@.kind))]
       ELSE \E found \in FindByEmail(req[w].email) :
                req' = [req EXCEPT ![w] = [@ EXCEPT !.pc = "upsert", !.dbOps = @ + 1,
                                                    !.found = found]]
    /\ UNCHANGED <<emailUnique, users, nextId, nreq, now, tokVars,
                 ghEmails, circVars>>

CallbackDone(r, user) ==
    Finish([r EXCEPT !.providerID = ""], "", ResultResp(200, AuthResult(
        GenerateToken(user.id, user.email, JWTSecret, TokenDuration, now), user)))

\* the rest of the find-or-create step (Create, Update or neither),
\* GenerateToken and the response
CallbackUpsert(w) ==
    /\ req[w].kind \in {"google", "github"} /\ req[w].pc = "upsert"
    /\ LET r == req[w]
           created == User(nextId, r.email, NoHash, r.name, r.providerID, r.kind)
       IN  IF r.ctx = "cancelled" /\ (r.found = <<>> \/ r.found[1].oauthProvider = "")
           THEN /\ req' = [req EXCEPT ![w] =
                       Finish(r, IF r.found = <<>> THEN "failed to create user"
                                 ELSE "failed to update user",
                              CallbackErrorResp(r.kind))]
                /\ UNCHANGED <<users, nextId>>
           ELSE IF r.found = <<>>
           THEN IF DuplicateKey(r.email)
                THEN /\ req' = [req EXCEPT ![w] =
                            Finish([r EXCEPT !.dbOps = @ + 1], "failed to create user",
                                   CallbackErrorResp(r.kind))]
                     /\ UNCHANGED <<users, nextId>>
                ELSE /\ users' = users \cup {created}
                     /\ nextId' = nextId + 1
                     /\ req' = [req EXCEPT ![w] =
                            CallbackDone([r EXCEPT !.dbOps = @ + 1], created)]
           ELSE IF r.found[1].oauthProvider = ""
           THEN LET linked == [r.found[1] EXCEPT !.oauthProvider = r.providerID,
                                                 !.oauthProviderName = r.kind]
                IN  /\ users' = UpdateDoc(linked)
                    /\ req' = [req EXCEPT ![w] =
                           CallbackDone([r EXCEPT !.dbOps = @ + 1], linked)]
                    /\ UNCHANGED nextId
           ELSE /\ req' = [req EXCEPT ![w] = CallbackDone(r, r.found[1])]
                /\ UNCHANGED <<users, nextId>>
    /\ UNCHANGED <<emailUnique, nreq, now, tokVars,
                 ghEmails, circVars>>

\* the timeout of the HTTP client elapses on the provider call in flight:
\* client.Do returns an error
CallbackTimeout(w) ==
    /\ req[w].deadline # <<>> /\ now >= req[w].deadline[1]
    /\ \/ CallbackExchange(w, TimedOut)
       \/ CallbackUserInfo(w, TimedOut)
       \/ CallbackEmails(w, TimedOut)

\* time passes while provider calls are in flight, no further than the
\* moment the first of them is given up
Elapse ==
    /\ \E w \in Workers : req[w].deadline # <<>>
    /\ \A w \in Workers : req[w].deadline # <<>> => now < req[w].deadline[1]
    /\ now' = now + 1
    /\ UNCHANGED <<ghEmails, circVars, srvVars, tokVars>>

\* the client of a callback request goes away: c.Request.Context() is cancelled
Cancel(w) ==
    /\ req[w].kind \in {"google", "github"}
    /\ req[w].pc \notin {"idle", "done"} /\ req[w].ctx = "live"
    /\ req' = [req EXCEPT ![w].ctx = "cancelled"]
    /\ UNCHANGED <<emailUnique, users, nextId, nreq, now, tokVars,
                 ghEmails, circVars>>

\* the goroutine of a finished request ends
Retire(w) ==
    /\ req[w].pc = "done"
    /\ req' = [req EXCEPT ![w] = Idle]
    /\ UNCHANGED <<emailUnique, users, nextId, nreq, now, tokVars,
                 ghEmails, circVars>>

(***************************************************************************)
(* Circles (domain/models/circle.go, repository/circle_repository.go)      *)
(* The repository has no caller in the server yet (the circles routes are  *)
(* a TODO): its clients call the methods directly, two at a time.  The     *)
(* InvitedAt and AcceptedAt of a member are stored as given and never read *)
(* and are left out.                                                       *)
(***************************************************************************)
AccessLevelPrivate == "private"
AccessLevelView == "view"
AccessLevelEdit == "edit"
AccessLevelAdmin == "admin"
AccessLevels == {AccessLevelPrivate, AccessLevelView, AccessLevelEdit, AccessLevelAdmin}

CircleIDs == 1..MaxCircles
\* user 1 owns the circles, user 2 does not
CircleUsers == {1, 2}

CircleMember(userID, accessLevel) == [UserID |-> userID, AccessLevel |-> accessLevel]

Circle(id, ownerID, members, t) ==
    [ID |-> id, Name |-> "Friends", OwnerID |-> ownerID, Members |-> members,
     CreatedAt |-> t, UpdatedAt |-> t]

RECURSIVE MemberIndex(_, _, _)
\* the loop over c.Members: the first index from i on whose entry has the
\* user id, 0 if there is none
MemberIndex(members, userID, i) ==
    IF i > Len(members) THEN 0
    ELSE IF members[i].UserID = userID THEN i
    ELSE MemberIndex(members, userID, i + 1)

HasMember(c, userID) == MemberIndex(c.Members, userID, 1) # 0

\* the level looked up in the member list only
GetMemberAccessLevelMembersOnly(c, userID) ==
    LET i == MemberIndex(c.Members, userID, 1)
    IN  IF i # 0 THEN [level |-> c.Members[i].AccessLevel, ok |-> TRUE]
        ELSE [level |-> "", ok |-> FALSE]

GetMemberAccessLevel(c, userID) ==
    IF c.OwnerID = userID THEN [level |-> AccessLevelAdmin, ok |-> TRUE]
    ELSE LET i == MemberIndex(c.Members, userID, 1)
         IN  IF i # 0 THEN [level |-> c.Members[i].AccessLevel, ok |-> TRUE]
             ELSE [level |-> "", ok |-> FALSE]

\* a circle repository call that has not started
NoOp == [kind |-> "none", pc |-> "idle", circleID |-> 0, userID |-> 0,
         level |-> "", seen |-> <<>>, err |-> "", out |-> <<>>]

\* FindOne({"_id": id}): <<>> for mongo.ErrNoDocuments, else <<circle>>
FindByID(id) ==
    IF \A c \in circles : c.ID # id THEN <<>>
    ELSE <<CHOOSE c \in circles : c.ID = id>>

\* the collection after UpdateOne({"_id": id}, ...) gave the circle the
\* member list members and set updated_at
SetMembers(id, members) ==
    {IF c.ID = id THEN [c EXCEPT !.Members = members, !.UpdatedAt = now] ELSE c :
         c \in circles}

\* "$pull": {"members": {"user_id": userID}}: every entry of the user goes
Pull(members, userID) == SelectSeq(members, LAMBDA m : m.UserID # userID)

\* "$set": {"members.$.access_level": level}: the first entry the filter
\* matched gets the level
SetPositional(members, userID, accessLevel) ==
    [members EXCEPT ![MemberIndex(members, userID, 1)].AccessLevel = accessLevel]

CanCall(w) == cop[w].pc = "idle" /\ ncop < MaxOps

Return(op, err) == [op EXCEPT !.pc = "done", !.err = err]

\* the access levels a caller hands to AddMember and to UpdateMemberAccess
AddLevels == AccessLevels \ {AccessLevelEdit}

UpdateLevels == {AccessLevelEdit, AccessLevelAdmin}

\* the member lists a caller hands to Create
CreateMembers ==
    {<<>>, <<CircleMember(1, AccessLevelView)>>, <<CircleMember(2, AccessLevelView)>>}

\* mongoCircleRepository.Create for a circle whose ID is zero
CircleCreate(w, ownerID, members) ==
    /\ CanCall(w) /\ nextCircle <= MaxCircles
    /\ circles' = circles \cup {Circle(nextCircle, ownerID, members, now)}
    /\ nextCircle' = nextCircle + 1
    /\ cop' = [cop EXCEPT ![w] =
           Return([NoOp EXCEPT !.kind = "Create", !.circleID = nextCircle], "")]
    /\ ncop' = ncop + 1
    /\ UNCHANGED <<srvVars, now, tokVars, ghEmails>>

\* mongoCircleRepository.Delete
CircleDelete(w, id) ==
    /\ CanCall(w)
    /\ circles' = {c \in circles : c.ID # id}
    /\ cop' = [cop EXCEPT ![w] =
           Return([NoOp EXCEPT !.kind = "Delete", !.circleID = id],
                  IF FindByID(id) = <<>> THEN "circle not found" ELSE "")]
    /\ ncop' = ncop + 1
    /\ UNCHANGED <<srvVars, now, tokVars, ghEmails, nextCircle>>

\* mongoCircleRepository.AddMember
CircleAddMember(w, id, member) ==
    /\ CanCall(w)
    /\ LET op == [NoOp EXCEPT !.kind = "AddMember", !.circleID = id,
                              !.userID = member.UserID, !.level = member.AccessLevel]
           found == FindByID(id)
       IN  IF found = <<>>
           THEN /\ cop' = [cop EXCEPT ![w] = Return(op, "circle not found")]
                /\ UNCHANGED circles
           ELSE /\ cop' = [cop EXCEPT ![w] = Return(op, "")]
                /\ circles' = SetMembers(id, Append(found[1].Members, member))
    /\ ncop' = ncop + 1
    /\ UNCHANGED <<srvVars, now, tokVars, ghEmails, nextCircle>>

\* RemoveMember without the check that the user is a member
CircleRemoveBeginUnchecked(w, id, userID) ==
    /\ CanCall(w)
    /\ LET op == [NoOp EXCEPT !.kind = "RemoveMember", !.circleID = id,
                              !.userID = userID]
       IN  cop' = [cop EXCEPT ![w] =
               IF FindByID(id) = <<>> THEN Return(op, "circle not found")
               ELSE [op EXCEPT !.pc = "update"]]
    /\ ncop' = ncop + 1
    /\ UNCHANGED <<srvVars, now, tokVars, ghEmails, circles, nextCircle>>

\* mongoCircleRepository.RemoveMember up to the check that the member exists
CircleRemoveBegin(w, id, userID) ==
    /\ CanCall(w)
    /\ LET op == [NoOp EXCEPT !.kind = "RemoveMember", !.circleID = id,
                              !.userID = userID]
           found == FindByID(id)
       IN  cop' = [cop EXCEPT ![w] =
               IF found = <<>> THEN Return(op, "circle not found")
               ELSE IF ~HasMember(found[1], userID)
                   THEN Return(op, "member not found in circle")
               ELSE [op EXCEPT !.pc = "update"]]
    /\ ncop' = ncop + 1
    /\ UNCHANGED <<srvVars, now, tokVars, ghEmails, circles, nextCircle>>

\* the UpdateOne of RemoveMember and the check of MatchedCount
CircleRemoveUpdate(w) ==
    /\ cop[w].kind = "RemoveMember" /\ cop[w].pc = "update"
    /\ LET found == FindByID(cop[w].circleID)
       IN  IF found = <<>>
           THEN /\ cop' = [cop EXCEPT ![w] = Return(@, "circle not found")]
                /\ UNCHANGED circles
           ELSE /\ cop' = [cop EXCEPT ![w] = Return(@, "")]
                /\ circles' = SetMembers(cop[w].circleID,
                                         Pull(found[1].Members, cop[w].userID))
    /\ UNCHANGED <<srvVars, now, tokVars, ghEmails, nextCircle, ncop>>

\* mongoCircleRepository.UpdateMemberAccess up to the check that the member exists
CircleUpdateAccessBegin(w, id, userID, accessLevel) ==
    /\ CanCall(w)
    /\ LET op == [NoOp EXCEPT !.kind = "UpdateMemberAccess", !.circleID = id,
                              !.userID = userID, !.level = accessLevel]
           found == FindByID(id)
       IN  cop' = [cop EXCEPT ![w] =
               IF found = <<>> THEN Return(op, "circle not found")
               ELSE IF ~HasMember(found[1], userID)
                   THEN Return(op, "member not found in circle")
               ELSE [op EXCEPT !.pc = "update"]]
    /\ ncop' = ncop + 1
    /\ UNCHANGED <<srvVars, now, tokVars, ghEmails, circles, nextCircle>>

\* the UpdateOne of UpdateMemberAccess, filtered by circle id and member
\* user id, and the check of MatchedCount
CircleUpdateAccessUpdate(w) ==
    /\ cop[w].kind = "UpdateMemberAccess" /\ cop[w].pc = "update"
    /\ LET found == FindByID(cop[w].circleID)
       IN  IF found = <<>> \/ ~HasMember(found[1], cop[w].userID)
           THEN /\ cop' = [cop EXCEPT ![w] = Return(@, "circle or member not found")]
                /\ UNCHANGED circles
           ELSE /\ cop' = [cop EXCEPT ![w] = Return(@, "")]
                /\ circles' = SetMembers(cop[w].circleID,
                       SetPositional(found[1].Members, cop[w].userID, cop[w].level))
    /\ UNCHANGED <<srvVars, now, tokVars, ghEmails, nextCircle, ncop>>

\* FindByID followed by GetMemberAccessLevel on the circle it returned
CircleResolve(w, id, userID) ==
    /\ CanCall(w)
    /\ LET op == [NoOp EXCEPT !.kind = "GetMemberAccessLevel", !.circleID = id,
                              !.userID = userID]
           found == FindByID(id)
       IN  cop' = [cop EXCEPT ![w] =
               IF found = <<>> THEN Return(op, "circle not found")
               ELSE Return([op EXCEPT !.seen = found,
                                      !.out = <<GetMemberAccessLevel(found[1], userID)>>],
                           "")]
    /\ ncop' = ncop + 1
    /\ UNCHANGED <<srvVars, now, tokVars, ghEmails, circles, nextCircle>>

\* the goroutine of a finished call ends
CircleReturn(w) ==
    /\ cop[w].pc = "done"
    /\ cop' = [cop EXCEPT ![w] = NoOp]
    /\ UNCHANGED <<srvVars, now, tokVars, ghEmails, circles, nextCircle, ncop>>

CircInit ==
    /\ circles = {}
    /\ nextCircle = 1
    /\ cop = [w \in Workers |-> NoOp]
    /\ ncop = 0

TokInit ==
    /\ tok = EmptyToken
    /\ gen = NoGen
    /\ vres = NoCall
    /\ mw = NoRequest

\* the directory the server finds at start: empty, or holding a user that
\* registered with EmailA and "password" earlier
InitialDirectories == {{}, {User(1, EmailA, HashPassword("password"), "Al", "", "")}}

\* main and NewServer do not call CreateIndexes: the email_unique index exists
\* only if the database the server connects to already carries it
Init ==
    /\ emailUnique \in BOOLEAN
    /\ users \in InitialDirectories
    /\ nextId = Cardinality(users) + 1
    /\ req = [w \in Workers |-> Idle]
    /\ nreq = 0
    /\ now = StartNow
    /\ TokInit
    /\ ghEmails = <<>>
    /\ CircInit

Next ==
    \/ \E w \in Workers, in \in RegisterInputs : RegisterBegin(w, in[1], in[2], in[3])
    \/ \E w \in Workers : RegisterCreate(w)
    \/ \E w \in Workers, in \in LoginInputs : Login(w, in[1], in[2])
    \/ \E w \in Workers, kind \in {"google", "github"}, in \in CallbackInputs :
           CallbackBegin(w, kind, in[1], in[2], in[3])
    \/ \E w \in Workers, resp \in TokenResponses : CallbackExchange(w, resp)
    \/ \E w \in Workers : \E resp \in UserInfoResponses(req[w].kind) :
           CallbackUserInfo(w, resp)
    \/ \E w \in Workers, resp \in HTTPResponses(GitHubEmailLists) :
           CallbackEmails(w, resp)
    \/ \E w \in Workers : CallbackFind(w)
    \/ \E w \in Workers : CallbackUpsert(w)
    \/ \E w \in Workers : Retire(w)

Spec == Init /\ [][Next]_vars

(***************************************************************************)
(* The Token Service and the Auth Middleware under a client that obtains   *)
(* tokens from GenerateToken, crafts token strings of its own and sends    *)
(* requests while the clock advances.                                      *)
(***************************************************************************)
Secrets == {JWTSecret, "wrong"}
GenerateInputs == {<<1, EmailA>>, <<2, EmailB>>}
Durations == {0 - TicksPerSec, 0 - 1, 0, 1, TicksPerSec - 1, TicksPerSec,
              TicksPerSec + 1, TokenDuration}

GarbageSig == <<"", "", <<>>>>

\* complete claims that expired long ago or expire late, and claims that lack
\* the subject, the email or the expiry
ForgedClaims ==
    {MapClaims(<<Hex(1)>>, <<EmailA>>, <<1>>), MapClaims(<<Hex(1)>>, <<EmailA>>, <<MaxNow>>),
     MapClaims(<<>>, <<EmailA>>, <<MaxNow>>), MapClaims(<<Hex(1)>>, <<>>, <<MaxNow>>),
     MapClaims(<<Hex(1)>>, <<EmailA>>, <<>>)}

\* what a client can put together without GenerateToken: no token, text, and
\* JWTs of any algorithm signed with the server's secret, another key or nothing
ForgedTokens ==
    {EmptyToken, TextToken}
    \cup {Jwt(alg, c, Sign(alg, k, c)) : alg \in Algs, c \in ForgedClaims, k \in Secrets}
    \cup {Jwt(alg, c, GarbageSig) : alg \in Algs, c \in ForgedClaims}

\* the Authorization headers a client holding token string t can send
Headers(t) ==
    LET words == {SP, Bearer, bearer}
                 \cup (IF t = EmptyToken THEN {} ELSE {TokenWord(t)})
    IN  UNION {[1..n -> words] : n \in 0..MaxHdr}

\* a behaviour follows one token string: the client obtains it, time passes,
\* and the string is presented once, to ValidateToken or to a protected route
NotPresented == ~vres.called /\ ~mw.served

Tick ==
    /\ NotPresented
    /\ now < MaxNow
    /\ now' = now + 1
    /\ UNCHANGED <<ghEmails, circVars, srvVars, tokVars>>

Generate(userID, email, secret, duration) ==
    /\ gen.by = "none" /\ NotPresented
    /\ tok' = GenerateToken(userID, email, secret, duration, now)
    /\ gen' = [by |-> "GenerateToken", userID |-> userID, email |-> email,
               secret |-> secret, duration |-> duration, at |-> now]
    /\ UNCHANGED <<ghEmails, circVars, srvVars, now, vres, mw>>

Forge(t) ==
    /\ gen.by = "none" /\ NotPresented
    /\ tok' = t
    /\ gen' = [NoGen EXCEPT !.by = "client"]
    /\ UNCHANGED <<ghEmails, circVars, srvVars, now, vres, mw>>

\* tok is altered after signing: another subject in the claims, the signature kept
Tamper ==
    /\ gen.by = "GenerateToken" /\ NotPresented
    /\ tok' = [tok EXCEPT !.claims.user_id = <<Hex(3)>>]
    /\ gen' = [gen EXCEPT !.by = "tampered"]
    /\ UNCHANGED <<ghEmails, circVars, srvVars, now, vres, mw>>

Validate(secret) ==
    /\ NotPresented
    /\ vres' = [called |-> TRUE, secret |-> secret, at |-> now,
                out |-> ValidateToken(tok, secret, now)]
    /\ UNCHANGED <<ghEmails, circVars, srvVars, now, tok, gen, mw>>

\* a request to a protected route
Protected(header) ==
    /\ NotPresented
    /\ mw' = AuthMiddleware(header, JWTSecret, now)
    /\ UNCHANGED <<ghEmails, circVars, srvVars, now, tok, gen, vres>>

InitTok ==
    /\ emailUnique = FALSE
    /\ users = {}
    /\ nextId = 1
    /\ req = [w \in Workers |-> Idle]
    /\ nreq = 0
    /\ now = StartNow
    /\ TokInit
    /\ ghEmails = <<>>
    /\ CircInit

NextTok ==
    \/ Tick
    \/ \E in \in GenerateInputs, s \in Secrets, d \in Durations :
           Generate(in[1], in[2], s, d)
    \/ \E t \in ForgedTokens : Forge(t)
    \/ Tamper
    \/ \E s \in Secrets : Validate(s)
    \/ \E h \in Headers(tok) : Protected(h)

SpecTok == InitTok /\ [][NextTok]_vars

(***************************************************************************)
(* The server under clients that send valid requests for one email, some   *)
(* at the same time and one after them; the providers answer every call.   *)
(***************************************************************************)
\* requests handled in one behaviour: two at the same time and one more
SeqReq == MaxReq + 1

SeqRegisterInputs == {<<EmailA, "password", "Al">>, <<EmailA, "Password", "Bo">>}
SeqLoginInputs == {<<EmailA, "password">>, <<EmailA, "Password">>}
SeqCallbackInput == <<<<"s1">>, <<"s1">>, <<"c1">>>>

\* the answers of a provider that identifies the user with EmailA
SeqTokenResponse == [transportErr |-> FALSE, status |-> 200, body |-> <<"at">>]
SeqUserInfoResponses(kind) ==
    {r \in UserInfoResponses(kind) :
        ~HTTPFailed(r) /\ (kind = "google" => r.body[1].Email = EmailA)}
SeqEmailsResponse ==
    [transportErr |-> FALSE, status |-> 200,
     body |-> <<<<[Email |-> EmailA, Primary |-> TRUE, Verified |-> TRUE]>>>>]

InitSeq ==
    /\ emailUnique \in BOOLEAN
    /\ users = {}
    /\ nextId = 1
    /\ req = [w \in Workers |-> Idle]
    /\ nreq = MaxReq - SeqReq
    /\ now = StartNow
    /\ TokInit
    /\ ghEmails = <<>>
    /\ CircInit

NextSeq ==
    \/ \E w \in Workers, in \in SeqRegisterInputs : RegisterBegin(w, in[1], in[2], in[3])
    \/ \E w \in Workers : RegisterCreate(w)
    \/ \E w \in Workers, in \in SeqLoginInputs : Login(w, in[1], in[2])
    \/ \E w \in Workers, kind \in {"google", "github"} :
           CallbackBegin(w, kind, SeqCallbackInput[1], SeqCallbackInput[2],
                         SeqCallbackInput[3])
    \/ \E w \in Workers : CallbackExchange(w, SeqTokenResponse)
    \/ \E w \in Workers : \E resp \in SeqUserInfoResponses(req[w].kind) :
           CallbackUserInfo(w, resp)
    \/ \E w \in Workers : CallbackEmails(w, SeqEmailsResponse)
    \/ \E w \in Workers : CallbackFind(w)
    \/ \E w \in Workers : CallbackUpsert(w)
    \/ \E w \in Workers : Retire(w)

SpecSeq == InitSeq /\ [][NextSeq]_vars

(***************************************************************************)
(* One GitHub callback against an emails endpoint that answers with the    *)
(* list ghEmails.                                                          *)
(***************************************************************************)
InitGitHub ==
    /\ emailUnique = FALSE
    /\ users \in InitialDirectories
    /\ nextId = Cardinality(users) + 1
    /\ req = [w \in Workers |-> Idle]
    /\ nreq = MaxReq - 1
    /\ now = StartNow
    /\ TokInit
    /\ ghEmails \in GitHubEmailLists
    /\ CircInit

NextGitHub ==
    \/ \E w \in Workers :
           CallbackBegin(w, "github", SeqCallbackInput[1], SeqCallbackInput[2],
                         SeqCallbackInput[3])
    \/ \E w \in Workers : CallbackExchange(w, SeqTokenResponse)
    \/ \E w \in Workers : \E resp \in SeqUserInfoResponses(req[w].kind) :
           CallbackUserInfo(w, resp)
    \/ \E w \in Workers :
           CallbackEmails(w, [transportErr |-> FALSE, status |-> 200,
                              body |-> <<ghEmails>>])
    \/ \E w \in Workers : CallbackFind(w)
    \/ \E w \in Workers : CallbackUpsert(w)
    \/ \E w \in Workers : Retire(w)

SpecGitHub == InitGitHub /\ [][NextGitHub]_vars

(***************************************************************************)
(* The OAuth flow of browsers that ask for the redirect to a provider and  *)
(* come back with the state they were given; a browser may go away while   *)
(* its callback is handled, and a provider call may fail.                  *)
(***************************************************************************)
OAuthCallbackInput == <<<<generateRandomState>>, <<generateRandomState>>, <<"c1">>>>

InitOAuth ==
    /\ emailUnique = FALSE
    /\ users \in InitialDirectories
    /\ nextId = Cardinality(users) + 1
    /\ req = [w \in Workers |-> Idle]
    /\ nreq = 0
    /\ now = StartNow
    /\ TokInit
    /\ ghEmails = <<>>
    /\ CircInit

NextOAuth ==
    \/ \E w \in Workers, kind \in {"googleAuth", "githubAuth"} : AuthRedirect(w, kind)
    \/ \E w \in Workers, kind \in {"google", "github"} :
           CallbackBegin(w, kind, OAuthCallbackInput[1], OAuthCallbackInput[2],
                         OAuthCallbackInput[3])
    \/ \E w \in Workers : Cancel(w)
    \/ \E w \in Workers, resp \in {SeqTokenResponse, TimedOut} : CallbackExchange(w, resp)
    \/ \E w \in Workers : \E resp \in SeqUserInfoResponses(req[w].kind) \cup {TimedOut} :
           CallbackUserInfo(w, resp)
    \/ \E w \in Workers, resp \in {SeqEmailsResponse, TimedOut} : CallbackEmails(w, resp)
    \/ \E w \in Workers : CallbackFind(w)
    \/ \E w \in Workers : CallbackUpsert(w)
    \/ \E w \in Workers : Retire(w)

SpecOAuth == InitOAuth /\ [][NextOAuth]_vars

(***************************************************************************)
(* One callback against providers that answer in time or not at all, while *)
(* time passes.  The clock runs, an elapsed timeout is noticed, and the    *)
(* directory answers; nothing makes a provider answer.                     *)
(***************************************************************************)
InitTimeout ==
    /\ emailUnique = FALSE
    /\ users \in InitialDirectories
    /\ nextId = Cardinality(users) + 1
    /\ req = [w \in Workers |-> Idle]
    /\ nreq = MaxReq - 1
    /\ now = StartNow
    /\ TokInit
    /\ ghEmails = <<>>
    /\ CircInit

NextTimeout ==
    \/ \E w \in Workers, kind \in {"google", "github"} :
           CallbackBegin(w, kind, SeqCallbackInput[1], SeqCallbackInput[2],
                         SeqCallbackInput[3])
    \/ \E w \in Workers : CallbackExchange(w, SeqTokenResponse)
    \/ \E w \in Workers : \E resp \in SeqUserInfoResponses(req[w].kind) :
           CallbackUserInfo(w, resp)
    \/ \E w \in Workers : CallbackEmails(w, SeqEmailsResponse)
    \/ \E w \in Workers : CallbackTimeout(w)
    \/ Elapse
    \/ \E w \in Workers : CallbackFind(w)
    \/ \E w \in Workers : CallbackUpsert(w)
    \/ \E w \in Workers : Retire(w)

FairTimeout ==
    /\ WF_vars(Elapse)
    /\ \A w \in Workers : /\ WF_vars(CallbackTimeout(w))
                          /\ WF_vars(CallbackFind(w))
                          /\ WF_vars(CallbackUpsert(w))

SpecTimeout == InitTimeout /\ [][NextTimeout]_vars /\ FairTimeout

(***************************************************************************)
(* The circle repository under clients that call it; the clock advances    *)
(* once, at any moment.                                                    *)
(***************************************************************************)
InitCircle ==
    /\ emailUnique = FALSE
    /\ users = {}
    /\ nextId = 1
    /\ req = [w \in Workers |-> Idle]
    /\ nreq = 0
    /\ now = StartNow
    /\ TokInit
    /\ ghEmails = <<>>
    /\ CircInit

NextCircle ==
    \/ (now = StartNow /\ Tick)
    \/ \E w \in Workers, members \in CreateMembers : CircleCreate(w, 1, members)
    \/ \E w \in Workers, id \in CircleIDs : CircleDelete(w, id)
    \/ \E w \in Workers, id \in CircleIDs, u \in CircleUsers, l \in AddLevels :
           CircleAddMember(w, id, CircleMember(u, l))
    \/ \E w \in Workers, id \in CircleIDs, u \in CircleUsers : CircleRemoveBegin(w, id, u)
    \/ \E w \in Workers : CircleRemoveUpdate(w)
    \/ \E w \in Workers, id \in CircleIDs, u \in CircleUsers, l \in UpdateLevels :
           CircleUpdateAccessBegin(w, id, u, l)
    \/ \E w \in Workers : CircleUpdateAccessUpdate(w)
    \/ \E w \in Workers, id \in CircleIDs, u \in CircleUsers : CircleResolve(w, id, u)
    \/ \E w \in Workers : CircleReturn(w)

SpecCircle == InitCircle /\ [][NextCircle]_vars

(***************************************************************************)
(* Claims about the User Directory and the requests (checked under Spec)   *)
(***************************************************************************)
Callbacks == {"google", "github"}

\* C1: in every reachable state of the User Directory no two user records
\* have the same email.
C1_EmailUnique == \A u \in users, v \in users : u.email = v.email => u = v

\* C2: of two Register calls for the same email that both passed the
\* FindByEmail check and both ran Create, exactly one succeeds (201) and the
\* other fails with EmailAlreadyExists (409).
C2_ConcurrentRegister ==
    \A v \in Workers, w \in Workers :
        ( /\ v # w
          /\ req[v].kind = "register" /\ req[w].kind = "register"
          /\ req[v].pc = "done" /\ req[w].pc = "done"
          /\ req[v].email = req[w].email
          /\ req[v].dbOps = 2 /\ req[w].dbOps = 2
          /\ req[v].resp.status # 409 )
        => /\ req[v].resp.status = 201
           /\ req[w].resp.status = 409
           /\ req[w].err = "ErrEmailAlreadyExists"

\* C3: once a user record carries a provider linkage, no step of any request
\* changes the provider user id or the provider name stored for that user.
C3_LinkageKept ==
    [][\A u \in users : u.oauthProvider # "" =>
          \E v \in users' : /\ v.id = u.id
                            /\ v.oauthProvider = u.oauthProvider
                            /\ v.oauthProviderName = u.oauthProviderName]_vars

\* the query parameter state is missing, or differs from the oauth_state cookie
StateMissingOrDiffers(r) ==
    r.state = <<>> \/ r.cookie = <<>> \/ r.state[1] # r.cookie[1]

\* C4: a callback request whose state is missing or differs from the cookie
\* is answered 400 'invalid state' without any provider call or directory
\* access; it never gets as far as the token exchange.
C4_StateCheckedFirst ==
    \A w \in Workers :
        ( /\ req[w].kind \in Callbacks
          /\ req[w].pc \in {"exchange", "done"} /\ req[w].calls = <<>>
          /\ StateMissingOrDiffers(req[w]) )
        => /\ req[w].pc = "done"
           /\ req[w].resp = ErrorResp(400, "invalid state parameter")
           /\ req[w].dbOps = 0

\* a finished Login with non-empty inputs that did not succeed
FailedLogin(r) ==
    /\ r.kind = "login" /\ r.pc = "done"
    /\ r.email # NoEmail /\ r.password # ""
    /\ r.resp.result = <<>>

\* C5: a Login that fails for non-empty inputs is answered 401 'invalid
\* credentials' with the InvalidCredentials kind, whether the email is
\* unknown or the password is wrong: any two such answers are equal.
C5_LoginFailureUniform ==
    /\ \A w \in Workers :
           FailedLogin(req[w]) =>
               /\ req[w].err = "ErrInvalidCredentials"
               /\ req[w].resp = ErrorResp(401, "invalid credentials")
    /\ \A v \in Workers, w \in Workers :
           FailedLogin(req[v]) /\ FailedLogin(req[w]) => req[v].resp = req[w].resp

\* an unknown email and a wrong password for a stored user, both answered
C5_Witness ==
    \E v \in Workers, w \in Workers :
        /\ FailedLogin(req[v]) /\ req[v].found = <<>>
        /\ FailedLogin(req[w]) /\ req[w].found # <<>>
        /\ req[w].found[1].passwordHash # NoHash
        /\ req[v].resp = req[w].resp

(***************************************************************************)
(* Claims about the Token Service and the Auth Middleware (under SpecTok)  *)
(***************************************************************************)
\* the header is exactly "Bearer", one space and a string without spaces
ExactBearer(h) ==
    /\ Len(h) >= 2 /\ h[1] = Bearer /\ h[2] = SP
    /\ \A i \in 3..Len(h) : h[i] # SP

\* the string after "Bearer " in such a header
BearerToken(h) == PartToken(SubSeq(h, 3, Len(h)))

\* C6 as stated: every rejection of the Auth Middleware is one and the same
\* response, the one a token that fails validation gets (401 'invalid token').
C6_OneRejection ==
    mw.served /\ ~mw.next => mw.status = 401 /\ mw.body = "invalid token"

\* C6 amended: every rejection has status 401 and the handler does not run,
\* and the body names the check that failed: header missing, header not of
\* the form 'Bearer <token>', or token failing validation (one body for every
\* cause of a validation failure).
C6_RejectionByCause ==
    mw.served /\ ~mw.next =>
        /\ mw.status = 401
        /\ mw.body = IF mw.header = <<>> THEN "authorization header required"
                     ELSE IF ~ExactBearer(mw.header)
                         THEN "invalid authorization header format"
                     ELSE "invalid token"

\* a header that is not of the form 'Bearer <token>' was rejected
C6_Witness ==
    /\ mw.served /\ ~mw.next /\ mw.header # <<>>
    /\ mw.body = "invalid authorization header format"

\* the error value ValidateToken returns for the empty token
EmptyTokenError == "token is empty"

\* C7 as stated: ValidateToken returns the same error value for every token
\* it rejects.
C7_SingleError == vres.called /\ ~vres.out.ok => vres.out.err = EmptyTokenError

\* C7 amended: every rejected token yields no claims and an error, and the
\* error value is the one of the check that failed: empty token, malformed
\* token, signature (wrong secret, altered token) or expiry.
C7_ErrorByCause ==
    vres.called /\ ~vres.out.ok =>
        /\ vres.out.claims = <<>> /\ vres.out.err # ""
        /\ (tok = EmptyToken => vres.out.err = "token is empty")
        /\ (tok = TextToken => vres.out.err = "token is malformed")
        /\ (gen.by = "GenerateToken" /\ gen.secret # vres.secret
               => vres.out.err = "token signature is invalid")
        /\ (gen.by = "tampered" => vres.out.err = "token signature is invalid")
        /\ (gen.by = "GenerateToken" /\ gen.secret = vres.secret
               => vres.out.err = "token is expired")

\* a token of GenerateToken rejected only because it expired
C7_Witness ==
    /\ vres.called /\ ~vres.out.ok
    /\ gen.by = "GenerateToken" /\ gen.secret = vres.secret
    /\ vres.out.err = "token is expired"

\* C8: a request passes the Auth Middleware exactly when its header is
\* 'Bearer <token>' with a token ValidateToken accepts under the configured
\* secret; then userID and email are the token's claims; otherwise the
\* answer is 401 and the handler does not run.
C8_OnlyVerifiedBearer ==
    mw.served =>
        LET out == ValidateToken(BearerToken(mw.header), JWTSecret, now)
        IN  IF ExactBearer(mw.header) /\ out.ok
            THEN /\ mw.next
                 /\ mw.userID = <<out.claims[1].UserID>>
                 /\ mw.email = <<out.claims[1].Email>>
                 /\ mw.header = <<Bearer, SP, TokenWord(tok)>>
                 /\ (gen.by = "GenerateToken" =>
                        /\ gen.secret = JWTSecret
                        /\ mw.userID = <<Hex(gen.userID)>>
                        /\ mw.email = <<gen.email>>)
            ELSE ~mw.next /\ mw.status = 401 /\ mw.userID = <<>> /\ mw.email = <<>>

\* the handler ran for the holder of a token of GenerateToken
C8_Witness ==
    /\ mw.served /\ mw.next /\ gen.by = "GenerateToken"
    /\ mw.userID = <<Hex(gen.userID)>>

\* ValidateToken was called on the token of GenerateToken with the same
\* secret at the clock reading of the generation
RoundTrip ==
    /\ vres.called /\ gen.by = "GenerateToken"
    /\ vres.secret = gen.secret /\ vres.at = gen.at

ClaimsMatch ==
    /\ vres.out.ok
    /\ vres.out.claims[1].UserID = Hex(gen.userID)
    /\ vres.out.claims[1].Email = gen.email

\* C9 as stated: the round trip returns the subject and email whenever
\* d > 0 and fails whenever d <= 0.
C9_RoundTripPositive ==
    RoundTrip => /\ gen.duration > 0 => ClaimsMatch
                 /\ gen.duration <= 0 => ~vres.out.ok

\* C9 amended: GenerateToken succeeds for every d; the round trip returns the
\* subject and email whenever d is at least one second and fails whenever
\* d <= 0; for 0 < d < 1s it succeeds exactly when the fraction of the
\* current second plus d reaches the next full second, the expiry being cut
\* to whole seconds.
C9_RoundTripSeconds ==
    RoundTrip =>
        /\ tok.kind = "jwt"
        /\ gen.duration >= TicksPerSec => ClaimsMatch
        /\ gen.duration <= 0 => ~vres.out.ok
        /\ (0 < gen.duration /\ gen.duration < TicksPerSec) =>
               (vres.out.ok <=> (gen.at % TicksPerSec) + gen.duration >= TicksPerSec)
        /\ vres.out.ok => ClaimsMatch

\* a round trip with a duration of exactly one second
C9_Witness == RoundTrip /\ gen.duration = TicksPerSec /\ ClaimsMatch

\* C10 as stated: ValidateToken returns claims only for a token whose
\* algorithm is HS256, whose signature verifies under secret and whose expiry
\* is later than the current time.
C10_OnlyHS256 ==
    vres.called /\ vres.out.ok =>
        /\ tok.kind = "jwt" /\ tok.alg = "HS256"
        /\ tok.sig = Sign("HS256", vres.secret, tok.claims)
        /\ tok.claims.exp # <<>> /\ vres.at < tok.claims.exp[1] * TicksPerSec

\* C10 amended: ValidateToken returns claims only for a token whose
\* algorithm is one of the HMAC family (HS256, HS384, HS512), whose signature
\* verifies under secret with that algorithm and whose expiry is later than
\* the current time; a token of another algorithm, signed with another
\* secret, altered after signing or expired is rejected.
C10_OnlyHMAC ==
    /\ vres.called /\ vres.out.ok =>
           /\ tok.kind = "jwt" /\ tok.alg \in {"HS256", "HS384", "HS512"}
           /\ tok.sig = Sign(tok.alg, vres.secret, tok.claims)
           /\ tok.claims.exp # <<>> /\ vres.at < tok.claims.exp[1] * TicksPerSec
           /\ gen.by # "tampered"
           /\ gen.by = "GenerateToken" => gen.secret = vres.secret
    /\ vres.called /\ tok.kind = "jwt" /\ tok.alg \in {"RS256", "none"} => ~vres.out.ok

\* a token signed with HS384 under the secret is accepted
C10_Witness ==
    /\ vres.called /\ vres.out.ok /\ tok.alg = "HS384"
    /\ tok.sig = Sign("HS384", vres.secret, tok.claims)

(***************************************************************************)
(* Claims about successive requests (checked under SpecSeq)                *)
(***************************************************************************)
\* worker v holds the answer 201 of a finished Register
Registered(v) ==
    /\ req[v].kind = "register" /\ req[v].pc = "done" /\ req[v].resp.status = 201

\* in this step worker w serves a Login for the email of worker v's request
LoginAfter(v, w) ==
    /\ v # w /\ req[w].pc = "idle"
    /\ req'[w].kind = "login" /\ req'[w].pc = "done"
    /\ req'[w].email = req[v].email

\* the responses of v and of w (after the step) carry the same user
SameUser(v, w) ==
    /\ req'[w].resp.result # <<>>
    /\ req'[w].resp.result[1].UserID = req[v].resp.result[1].UserID
    /\ req'[w].resp.result[1].Email = req[v].resp.result[1].Email
    /\ req'[w].resp.result[1].Name = req[v].resp.result[1].Name

\* C11: a Login that follows a successful Register with the same email and
\* password succeeds and returns the user id, email and name the Register
\* returned.
C11_RegisterThenLogin ==
    [][\A v \in Workers, w \in Workers :
          (Registered(v) /\ LoginAfter(v, w) /\ req'[w].password = req[v].password)
          => (req'[w].resp.status = 200 /\ SameUser(v, w))]_vars

\* in this step worker w serves a Register for the email of worker v's request
RegisterAfter(v, w) ==
    /\ v # w /\ req[w].pc = "idle"
    /\ req'[w].kind = "register" /\ req'[w].email = req[v].email

\* C12: after a successful Register(e, p1, n1) every later Register(e, p2, n2)
\* fails with EmailAlreadyExists (409 'email already exists'), returns no
\* token and leaves the directory unchanged; Login(e, p1) still succeeds as
\* that user and Login(e, p2) with p2 # p1 fails.
C12_DuplicateRegister ==
    [][\A v \in Workers, w \in Workers :
          /\ (Registered(v) /\ RegisterAfter(v, w))
             => /\ req'[w].pc = "done"
                /\ req'[w].err = "ErrEmailAlreadyExists"
                /\ req'[w].resp = ErrorResp(409, "email already exists")
                /\ users' = users
          /\ (Registered(v) /\ LoginAfter(v, w))
             => IF req'[w].password = req[v].password
                THEN req'[w].resp.status = 200 /\ SameUser(v, w)
                ELSE req'[w].resp = ErrorResp(401, "invalid credentials")]_vars

\* worker v holds the answer 200 of a finished callback
CalledBack(v) ==
    /\ req[v].kind \in Callbacks /\ req[v].pc = "done" /\ req[v].resp.status = 200

\* in this step worker w, serving a callback for the provider identity of
\* worker v's request, looks the resolved email up in the directory
FindAfter(v, w) ==
    /\ v # w /\ req[w].kind = req[v].kind /\ req[w].email = req[v].email
    /\ req[w].pc = "find" /\ req'[w].pc = "upsert"

\* C18: of two successive successful callbacks for the same provider identity
\* the second finds the user the first one returned (same user id and email)
\* and so creates no additional user record.
C18_CallbackIdempotent ==
    [][\A v \in Workers, w \in Workers :
          (CalledBack(v) /\ FindAfter(v, w))
          => /\ req'[w].found # <<>>
             /\ Hex(req'[w].found[1].id) = req[v].resp.result[1].UserID
             /\ req'[w].found[1].email = req[v].resp.result[1].Email]_vars

(***************************************************************************)
(* Claims about the callback's steps (C19 under SpecGitHub, C20 under Spec)*)
(***************************************************************************)
\* the first index of emails whose entry is primary and verified (when
\* primary is TRUE) or verified (when it is FALSE), 0 if there is none
FirstVerified(emails, primary) ==
    LET ok(i) == emails[i].Verified /\ (primary => emails[i].Primary)
    IN  IF \E i \in 1..Len(emails) : ok(i)
        THEN CHOOSE i \in 1..Len(emails) : ok(i) /\ \A j \in 1..(i - 1) : ~ok(j)
        ELSE 0

\* the email the selection order of the claim picks from a non-empty list
SelectedEmail(emails) ==
    IF FirstVerified(emails, TRUE) # 0 THEN emails[FirstVerified(emails, TRUE)].Email
    ELSE IF FirstVerified(emails, FALSE) # 0
        THEN emails[FirstVerified(emails, FALSE)].Email
    ELSE emails[1].Email

\* worker w's GitHub callback has received the answer of the emails endpoint
EmailsAnswered(w) == req[w].kind = "github" /\ Len(req[w].calls) = 3

\* C19: the email a GitHub callback resolves to is that of the first primary
\* and verified entry of the emails list, else of the first verified entry,
\* else of the first entry; for an empty list the callback fails with
\* 'no email found', before any directory access.
C19_EmailSelection ==
    \A w \in Workers :
        EmailsAnswered(w) =>
            IF ghEmails = <<>>
            THEN /\ req[w].pc = "done"
                 /\ req[w].err = "failed to get user email: no email found for user"
                 /\ req[w].resp = ErrorResp(500, "failed to authenticate with GitHub")
                 /\ req[w].dbOps = 0
            ELSE /\ req[w].email = SelectedEmail(ghEmails)
                 /\ req[w].err \in {"", "failed to create user"}

\* a callback resolved to the second entry, the first verified one of a list
\* without a primary verified entry
C19_Witness ==
    \E w \in Workers :
        /\ EmailsAnswered(w) /\ req[w].pc = "done" /\ req[w].resp.status = 200
        /\ Len(ghEmails) = 2
        /\ \A i \in 1..2 : ~(ghEmails[i].Primary /\ ghEmails[i].Verified)
        /\ ~ghEmails[1].Verified /\ ghEmails[2].Verified
        /\ ghEmails[1].Email # ghEmails[2].Email
        /\ req[w].resp.result[1].Email = ghEmails[2].Email

\* the provider endpoints a callback of this kind contacts, in order
Endpoints(kind) ==
    IF kind = "github" THEN <<"token", "userinfo", "emails">>
    ELSE <<"token", "userinfo">>

\* the endpoints a callback has contacted when it is at pc or ended with err
Contacted(r) ==
    IF r.pc = "exchange" \/ r.err \in {"state", "code"} THEN 0
    ELSE IF r.pc = "userinfo" \/ r.err = "ErrOAuthTokenExchange" THEN 1
    ELSE IF r.pc = "emails" \/ r.err = "ErrOAuthUserInfo" THEN 2
    ELSE Len(Endpoints(r.kind))

\* C20: a callback contacts each provider endpoint at most once, in the order
\* token, user-info, emails, then the directory, then issues the token; the
\* first failing step ends the attempt with an error and no result.
C20_NoRetryInOrder ==
    \A w \in Workers :
        LET r == req[w]
        IN  r.kind \in Callbacks =>
            /\ r.calls = SubSeq(Endpoints(r.kind), 1, Contacted(r))
            /\ r.dbOps > 0 => r.calls = Endpoints(r.kind)
            /\ r.dbOps = 0 <=> (r.pc \in {"exchange", "userinfo", "emails", "find"}
                                \/ (r.pc = "done" /\ r.err \notin {"", "failed to create user"}))
            /\ r.err # "" => r.pc = "done" /\ r.resp.result = <<>> /\ r.resp.status >= 400
            /\ r.resp.result # <<>> =>
                   /\ r.pc = "done" /\ r.err = "" /\ r.resp.status = 200
                   /\ r.calls = Endpoints(r.kind) /\ r.dbOps >= 1

\* a callback ended by a failing user-info call after one token exchange
C20_Witness ==
    \E w \in Workers :
        /\ req[w].kind \in Callbacks /\ req[w].pc = "done"
        /\ req[w].err = "ErrOAuthUserInfo" /\ req[w].calls = <<"token", "userinfo">>

(***************************************************************************)
(* Claims about circles (checked under SpecCircle)                         *)
(***************************************************************************)
\* the user ids of the entries of a member list, as a set
MemberIDs(members) == {members[i].UserID : i \in 1..Len(members)}

\* worker w holds the result of an access resolution
Resolved(w) ==
    /\ cop[w].kind = "GetMemberAccessLevel" /\ cop[w].pc = "done" /\ cop[w].seen # <<>>

\* C13: the owner resolves to admin whatever the member list holds; another
\* user resolves to the level stored in their member entry (the first one,
\* should there be several); a user who is neither resolves to no access.
C13_AccessResolution ==
    \A w \in Workers :
        Resolved(w) =>
            LET c == cop[w].seen[1]
                u == cop[w].userID
                out == cop[w].out[1]
            IN  IF u = c.OwnerID THEN out.ok /\ out.level = "admin"
                ELSE IF u \in MemberIDs(c.Members)
                    THEN /\ out.ok
                         /\ \E i \in 1..Len(c.Members) :
                                /\ c.Members[i].UserID = u
                                /\ c.Members[i].AccessLevel = out.level
                                /\ \A j \in 1..(i - 1) : c.Members[j].UserID # u
                ELSE ~out.ok /\ out.level = ""

\* the owner, listed in the member list with the level view, resolved to admin
C13_Witness ==
    \E w \in Workers :
        /\ Resolved(w) /\ cop[w].userID = cop[w].seen[1].OwnerID
        /\ \E i \in 1..Len(cop[w].seen[1].Members) :
               /\ cop[w].seen[1].Members[i].UserID = cop[w].userID
               /\ cop[w].seen[1].Members[i].AccessLevel = "view"
        /\ cop[w].out[1].level = "admin"

\* in this step worker w makes and finishes a call of the given kind
Calls(w, kind) ==
    cop[w].pc = "idle" /\ cop'[w].kind = kind /\ cop'[w].pc = "done"

\* the member list of the circle id before the step, <<>> if there is none
MembersOf(id) == IF FindByID(id) = <<>> THEN <<>> ELSE FindByID(id)[1].Members

\* C14: AddMember for a user id that is already in the circle's member list
\* fails and leaves the member list unchanged.
C14_AddMemberTwice ==
    [][\A w \in Workers :
          (Calls(w, "AddMember")
           /\ cop'[w].userID \in MemberIDs(MembersOf(cop'[w].circleID)))
          => (cop'[w].err # "" /\ circles' = circles)]_vars

\* C15: each user id appears at most once in a circle's member list.
C15_MemberOnce ==
    \A c \in circles : \A i \in 1..Len(c.Members), j \in 1..Len(c.Members) :
        c.Members[i].UserID = c.Members[j].UserID => i = j

\* C16: no member entry of any circle holds the access level private.
C16_NoPrivateMember ==
    \A c \in circles : \A i \in 1..Len(c.Members) :
        c.Members[i].AccessLevel \in {"view", "edit", "admin"}

MemberCalls == {"RemoveMember", "UpdateMemberAccess"}

\* the circle id is as before the step but for its member list and updated_at
SameButMembers(id) ==
    /\ \A c \in circles : c.ID # id => c \in circles'
    /\ \A d \in circles' : d.ID # id => d \in circles
    /\ FindByID(id) # <<>>
    /\ \E d \in circles' :
           /\ d.ID = id /\ \A e \in circles' : e.ID = id => e = d
           /\ d = [FindByID(id)[1] EXCEPT !.Members = d.Members,
                                          !.UpdatedAt = d.UpdatedAt]
           /\ d.UpdatedAt = now

\* the member list of the circle id after the step
MembersAfter(id) == (CHOOSE d \in circles' : d.ID = id).Members

\* the list after holds the entries of before that are not u's, in order
Removed(before, after, u) ==
    LET keep == {i \in 1..Len(before) : before[i].UserID # u}
        rank(i) == Cardinality({j \in keep : j <= i})
    IN  /\ Len(after) = Cardinality(keep)
        /\ \A i \in keep : after[rank(i)] = before[i]

\* the list after is the list before but for the level of u's first entry
Relevelled(before, after, u, level) ==
    /\ Len(after) = Len(before)
    /\ \A i \in 1..Len(before) :
           IF before[i].UserID = u /\ \A j \in 1..(i - 1) : before[j].UserID # u
           THEN after[i] = [before[i] EXCEPT !.AccessLevel = level]
           ELSE after[i] = before[i]

\* C17: RemoveMember and UpdateMemberAccess called for a user id that is not
\* in the circle's member list, or for a circle that does not exist, fail,
\* and a failing call leaves every circle unchanged; a successful
\* RemoveMember removes exactly that user's entries and a successful
\* UpdateMemberAccess changes only that user's access level.
C17_MemberCalls ==
    [][\A w \in Workers :
          /\ (cop[w].pc = "idle" /\ cop'[w].kind \in MemberCalls
              /\ cop'[w].userID \notin MemberIDs(MembersOf(cop'[w].circleID)))
             => cop'[w].pc = "done" /\ cop'[w].err # ""
          /\ (cop[w].pc # "done" /\ cop'[w].pc = "done" /\ cop'[w].kind \in MemberCalls
              /\ cop'[w].err # "")
             => circles' = circles
          /\ (cop[w].pc = "update" /\ cop'[w].pc = "done" /\ cop'[w].err = "")
             => /\ SameButMembers(cop[w].circleID)
                /\ IF cop[w].kind = "RemoveMember"
                   THEN Removed(MembersOf(cop[w].circleID),
                                MembersAfter(cop[w].circleID), cop[w].userID)
                   ELSE Relevelled(MembersOf(cop[w].circleID),
                                   MembersAfter(cop[w].circleID), cop[w].userID,
                                   cop[w].level)]_vars

\* a RemoveMember succeeded and the circle keeps its other member
C17_Witness ==
    \E w \in Workers :
        /\ cop[w].kind = "RemoveMember" /\ cop[w].pc = "done" /\ cop[w].err = ""
        /\ \E c \in circles :
               /\ c.ID = cop[w].circleID /\ c.Members # <<>>
               /\ cop[w].userID \notin MemberIDs(c.Members)

(***************************************************************************)
(* Claims about the OAuth flow (checked under SpecOAuth)                   *)
(***************************************************************************)
\* the provider call a request at this pc waits for
InFlight(pc) == pc \in {"exchange", "userinfo", "emails"}

\* C21: once the context of a callback request is cancelled, the provider
\* call in flight is aborted (the request ends with an error instead of going
\* on with the answer), no further provider call is started and no directory
\* operation is carried out for the request.
C21_CancelReaches ==
    [][\A w \in Workers :
          (req[w].ctx = "cancelled" /\ req[w].pc # "done" /\ req'[w] # req[w])
          => /\ ~InFlight(req'[w].pc)
             /\ InFlight(req[w].pc) => (req'[w].pc = "done" /\ req'[w].err # "")
             /\ req'[w].pc = "done" => req'[w].dbOps = req[w].dbOps]_vars

\* C27: the states issued to two redirect requests are never equal.
C27_FreshState ==
    \A v \in Workers, w \in Workers :
        ( /\ v # w
          /\ req[v].kind \in {"googleAuth", "githubAuth"} /\ req[v].pc = "done"
          /\ req[w].kind \in {"googleAuth", "githubAuth"} /\ req[w].pc = "done" )
        => req[v].cookie # req[w].cookie

(***************************************************************************)
(* Claims about the timeouts of the provider calls (under SpecTimeout)     *)
(***************************************************************************)
\* the attempt of worker w has ended, with a result or with an error
Ended(w) ==
    /\ req[w].pc = "done"
    /\ (req[w].resp.result # <<>>) # (req[w].err # "")

\* C22: every callback attempt eventually ends with a result or an error,
\* whether or not the provider endpoints answer: a provider call still in
\* flight ten seconds after its start is given up, and that ends the attempt
\* with an error.
C22_Terminates ==
    /\ \A w \in Workers : (req[w].pc \notin {"idle", "done"}) ~> Ended(w)
    /\ [][\A w \in Workers :
             (req[w].deadline # <<>> /\ now >= req[w].deadline[1] /\ req'[w] # req[w])
             => (Ended(w)' /\ req'[w].err # "")]_vars
    /\ [](\A w \in Workers :
             /\ InFlight(req[w].pc) <=> req[w].deadline # <<>>
             /\ req[w].deadline # <<>> =>
                    /\ now <= req[w].deadline[1]
                    /\ req[w].deadline[1] <= now + ClientTimeoutSec * TicksPerSec)

\* a token exchange that was never answered has been given up at its deadline
C22_Witness ==
    \E w \in Workers :
        /\ Ended(w) /\ req[w].err = "ErrOAuthTokenExchange"
        /\ now = StartNow + ClientTimeoutSec * TicksPerSec

(***************************************************************************)
(* Claims about Register and the callbacks (checked under Spec)            *)
(***************************************************************************)
\* in this step worker w takes a Register whose email and name are valid
RegisterValid(w) ==
    /\ req[w].pc = "idle" /\ req'[w].kind = "register"
    /\ req'[w].email # NoEmail /\ emailRegex(req'[w].email) /\ req'[w].name # ""

\* C23: a Register with a valid email and name is rejected, before any
\* directory access and with no user created, exactly when the length of the
\* password is below 8; a non-empty password of a length up to 7 is rejected
\* with PasswordTooShort (400), one of length 8 passes the check.
C23_PasswordBoundary ==
    [][\A w \in Workers :
          RegisterValid(w) =>
              IF Len(req'[w].password) < 8
              THEN /\ req'[w].pc = "done" /\ req'[w].resp.status = 400
                   /\ req'[w].dbOps = 0 /\ users' = users
                   /\ req'[w].password # "" =>
                          /\ req'[w].err = "ErrPasswordTooShort"
                          /\ req'[w].resp.body = "password must be at least 8 characters"
              ELSE /\ req'[w].dbOps = 1
                   /\ req'[w].err \in {"", "ErrEmailAlreadyExists"}]_vars

\* a password of length 7 was refused and one of length 8 registered a user
C23_Witness ==
    \E v \in Workers, w \in Workers :
        /\ req[v].kind = "register" /\ Len(req[v].password) = 7
        /\ req[v].err = "ErrPasswordTooShort"
        /\ req[w].kind = "register" /\ Len(req[w].password) = 8
        /\ req[w].resp.status = 201

\* the callback r ended without a directory access after contacting n endpoints
FailedAt(r, n) ==
    /\ r.kind \in Callbacks /\ r.pc = "done" /\ r.dbOps = 0
    /\ Len(r.calls) = n /\ r.err # ""

\* C24: a callback that fails at the token endpoint ends with an error of the
\* TokenExchange kind, one that fails at the user-info or at the emails
\* endpoint with an error of the UserInfo kind, and no callback goes on to
\* the user-info call with an empty access token.
C24_FailureKinds ==
    \A w \in Workers :
        /\ FailedAt(req[w], 1) => req[w].err = "ErrOAuthTokenExchange"
        /\ FailedAt(req[w], 2) => req[w].err = "ErrOAuthUserInfo"
        /\ (FailedAt(req[w], 3)
            /\ req[w].err # "failed to get user email: no email found for user")
           => req[w].err = "ErrOAuthUserInfo"
        /\ (req[w].kind \in Callbacks /\ req[w].pc \in {"userinfo", "emails"})
           => req[w].accessToken # ""

\* C25: no callback looks up, creates or links a user under the empty email
\* or answers with a token for it, and no user record has an empty email.
C25_NoEmptyEmail ==
    /\ \A u \in users : u.email # NoEmail
    /\ \A w \in Workers :
           req[w].kind \in Callbacks =>
               /\ req[w].pc \in {"find", "upsert"} => req[w].email # NoEmail
               /\ req[w].resp.result # <<>> => req[w].resp.result[1].Email # NoEmail

(***************************************************************************)
(* Claims about callbacks and credential users (checked under SpecSeq)     *)
(***************************************************************************)
\* the users registered with credentials under the email
CredentialUsers(email) == {u \in users : u.email = email /\ u.passwordHash # NoHash}

\* user v is user u but for the provider linkage
LinkageOnly(u, v) ==
    v = [u EXCEPT !.oauthProvider = v.oauthProvider,
                  !.oauthProviderName = v.oauthProviderName]

\* C26: a callback whose resolved email is that of a credential-registered
\* user resolves to that user whatever the provider user id, adds no record
\* and changes nothing but the linkage fields of the user's record; a Login
\* with the email and the original password of a user a callback linked
\* succeeds with that user's id.
C26_LinkByEmail ==
    [][\A w \in Workers :
          /\ (req[w].kind \in Callbacks /\ req[w].pc = "find" /\ req'[w].pc = "upsert")
             => \A u \in CredentialUsers(req[w].email) :
                    req'[w].found # <<>> /\ req'[w].found[1].id = u.id
          /\ (req[w].kind \in Callbacks /\ req[w].pc = "upsert" /\ req[w].found # <<>>
              /\ req'[w].pc = "done")
             => /\ req'[w].resp.result # <<>>
                /\ req'[w].resp.result[1].UserID = Hex(req[w].found[1].id)
                /\ \A v \in users' : \E u \in users : u.id = v.id /\ LinkageOnly(u, v)
                /\ Cardinality(users') = Cardinality(users)
          /\ (req[w].pc = "idle" /\ req'[w].kind = "login")
             => \A u \in CredentialUsers(req'[w].email) :
                    (u.oauthProvider # "" /\ VerifyPassword(u.passwordHash, req'[w].password))
                    => /\ req'[w].resp.status = 200
                       /\ req'[w].resp.result[1].UserID = Hex(u.id)]_vars

\* the users a callback created and no one registered: no password hash
OAuthOnlyUsers(email) == {u \in users : u.email = email /\ u.passwordHash = NoHash}

\* C28: a Login with the email of a user that an OAuth callback created
\* fails, whatever the password, with InvalidCredentials and the answer an
\* unknown email gets (401 'invalid credentials').
C28_OAuthOnlyLogin ==
    [][\A w \in Workers :
          (req[w].pc = "idle" /\ req'[w].kind = "login"
           /\ OAuthOnlyUsers(req'[w].email) # {})
          => /\ req'[w].pc = "done" /\ req'[w].resp.result = <<>>
             /\ req'[w].err = "ErrInvalidCredentials"
             /\ req'[w].resp = ErrorResp(401, "invalid credentials")]_vars

(***************************************************************************)
(* Claims about the frame of a failing callback (checked under Spec)       *)
(***************************************************************************)
\* the errors of a callback that fails before the find-or-create step
EarlyErrors ==
    {"code", "ErrOAuthTokenExchange", "ErrOAuthUserInfo",
     "failed to get user email: emails request failed",
     "failed to get user email: no email found for user"}

\* C29: a callback that fails before the find-or-create step (empty code,
\* token exchange, user-info, email resolution) has made no directory
\* operation, and none of its steps changes the User Directory: no user is
\* created and no linkage is written.
C29_EarlyFailureFrame ==
    [][\A w \in Workers :
          (req'[w] # req[w] /\ req'[w].kind \in Callbacks)
          => /\ req'[w].err \in EarlyErrors => (req'[w].pc = "done" /\ req'[w].dbOps = 0)
             /\ req'[w].dbOps = 0 => (users' = users /\ nextId' = nextId)]_vars

\* a GitHub callback failed at the emails endpoint; the directory holds the
\* one user it held at the start
C29_Witness ==
    \E w \in Workers :
        /\ req[w].kind = "github" /\ req[w].pc = "done"
        /\ req[w].err = "failed to get user email: emails request failed"
        /\ users \in InitialDirectories /\ users # {}

(***************************************************************************)
(* Claims about concurrent calls on a circle (checked under SpecCircle)    *)
(***************************************************************************)
\* in this step the RemoveMember call of worker w carries out its UpdateOne
RemoveTakesEffect(w) ==
    /\ cop[w].kind = "RemoveMember" /\ cop[w].pc = "update" /\ cop'[w].pc = "done"

\* C30: a RemoveMember reports success only if the user was a member of the
\* circle when the removal took effect, and fails with 'member not found'
\* otherwise: of two concurrent calls for the same circle and member one
\* succeeds and the other fails.
C30_RemoveOnce ==
    [][\A w \in Workers :
          RemoveTakesEffect(w) =>
              IF cop[w].userID \in MemberIDs(MembersOf(cop[w].circleID))
              THEN cop'[w].err = ""
              ELSE cop'[w].err \in {"member not found in circle", "circle not found"}]_vars

====
